---------------------------- MODULE Spec2Model ----------------------------
(***************************************************************************)
(* Model of the NFC remote server: the two HTTP programs of the repository *)
(* (server.py with auto-pairing, main.py with per-session tag             *)
(* configuration), their in-memory dictionaries and their handlers.        *)
(*                                                                         *)
(* Python strings that the code trims, splits, upper-cases or compares by  *)
(* prefix are sequences of one-character strings.  Optional[str] is a set  *)
(* with at most one element: None is {} and a present value v is {v}.      *)
(***************************************************************************)
EXTENDS Integers, Sequences, FiniteSets, TLC

VARIABLES
    app,                    \* which program is running: "server" or "main"
    API_KEY,                \* settings.api_key, fixed at start-up
    tag_configs,            \* Dict[str, TagConfigResponse]
    last_apdu_per_session,  \* Dict[str, str]
    session_clients,        \* Dict[str, Set[str]]   (server.py only)
    session_status,         \* Dict[str, str]        (server.py only)
    roles,                  \* history: session -> roles whose endpoint registered it
    request,                \* the request handled last
    response,               \* the answer given to it
    tasks,                  \* the handler coroutines on the event loop
    sim                     \* tag_simulator.py: its channel and receive loop

vars == <<app, API_KEY, tag_configs, last_apdu_per_session, session_clients,
          session_status, roles, request, response, tasks, sim>>

-----------------------------------------------------------------------------
(* Bounds *)

\* client ports per host: client identities are host:port
MaxPort == 2

-----------------------------------------------------------------------------
(* Optional values *)

None == {}
Some(v) == {v}
Value(o) == CHOOSE v \in o : TRUE

-----------------------------------------------------------------------------
(* Python string operations, on sequences of characters *)

\* the characters str.strip() removes that occur in the inputs
Whitespace == {" ", "\t"}

Lower == <<"a","b","c","d","e","f","g","h","i","j","k","l","m",
           "n","o","p","q","r","s","t","u","v","w","x","y","z">>
UpperLetters == <<"A","B","C","D","E","F","G","H","I","J","K","L","M",
                  "N","O","P","Q","R","S","T","U","V","W","X","Y","Z">>

UpperChar(c) ==
    IF \E i \in 1..Len(Lower) : Lower[i] = c
    THEN UpperLetters[CHOOSE i \in 1..Len(Lower) : Lower[i] = c]
    ELSE c

\* str.upper()
upper(s) == [i \in 1..Len(s) |-> UpperChar(s[i])]

IsNotSpace(c) == c # " "

\* str.replace(" ", "")
replace_spaces(s) == SelectSeq(s, IsNotSpace)

RECURSIVE lstrip(_)
lstrip(s) ==
    IF s = <<>> THEN s
    ELSE IF Head(s) \in Whitespace THEN lstrip(Tail(s)) ELSE s

RECURSIVE rstrip(_)
rstrip(s) ==
    IF s = <<>> THEN s
    ELSE IF s[Len(s)] \in Whitespace THEN rstrip(SubSeq(s, 1, Len(s) - 1)) ELSE s

\* str.strip()
strip(s) == rstrip(lstrip(s))

\* str.startswith(p)
startswith(s, p) == Len(s) >= Len(p) /\ SubSeq(s, 1, Len(p)) = p

\* s.split(" ", 1)[1], for an s that holds a space: what follows the first one
split1_rest(s) ==
    LET i == CHOOSE k \in 1..Len(s) :
                 s[k] = " " /\ \A j \in 1..(k - 1) : s[j] # " "
    IN  SubSeq(s, i + 1, Len(s))

Bearer == <<"B","e","a","r","e","r"," ">>

-----------------------------------------------------------------------------
(* The parts of the state a specification leaves idle *)

\* no request is being handled concurrently
NoTasks == <<>>

\* the tag simulator is not connected
SimIdle == [wire |-> <<>>, reports |-> <<>>, loop |-> "idle"]

-----------------------------------------------------------------------------
(* Dictionaries: functions whose domain is the set of keys *)

EmptyDict == <<>>

\* d[k] = v
Put(d, k, v) == [x \in (DOMAIN d) \cup {k} |-> IF x = k THEN v ELSE d[x]]

\* d.get(k, default)
Get(d, k, default) == IF k \in DOMAIN d THEN d[k] ELSE default

-----------------------------------------------------------------------------
(* Inputs *)

Hosts == {"10.0.0.1"}
Ports == 1..MaxPort

\* request.client: host and port of the caller's connection
Clients == [host : Hosts, port : Ports]

\* f"{request.client.host}:{request.client.port}"
client_id(client) == <<client.host, ":", client.port>>

\* settings.api_key: empty (auth disabled) or a secret
ApiKeys == { <<>>, <<"k">> }

\* Authorization headers: missing, the right token, a wrong token, no Bearer
Headers ==
    { None,
      Some(Bearer \o <<"k">>),
      Some(Bearer \o <<"x">>),
      Some(<<"k">>) }

\* session ids as sent: empty, plain, padded with a space
SessionIds == { <<>>, <<"a">>, <<" ", "a">> }

\* session_id: Optional[str] of main.py
OptSessionIds == {None} \cup {Some(s) : s \in SessionIds}

\* command_apdu as sent: empty, lower case with a space
Commands == { <<>>, <<"0", " ", "a">> }

NdefUri(uri) ==
    [record_type |-> "uri", lang |-> None, text |-> None, uri |-> Some(uri)]

\* SetTagConfigRequest payloads, without the session id
TagConfigs ==
    { [mode |-> "emulate", tag_id |-> Some("04A1B2C3"),
       ndef_records |-> Some(<<NdefUri("https://google.com")>>)],
      [mode |-> "none", tag_id |-> None, ndef_records |-> None] }

-----------------------------------------------------------------------------
(* server.py and main.py: AUTH *)

HTTPException(status_code, detail) ==
    [status_code |-> status_code, body |-> [detail |-> detail]]

\* check_auth comparing the token as sent, without .strip()
check_auth_no_strip(authorization) ==
    IF API_KEY = <<>> THEN None
    ELSE IF authorization = None
            \/ Value(authorization) = <<>>
            \/ ~startswith(Value(authorization), Bearer)
         THEN Some(HTTPException(401, "Missing or invalid token"))
    ELSE IF split1_rest(Value(authorization)) # API_KEY
         THEN Some(HTTPException(403, "Invalid API token"))
    ELSE None

\* None when check_auth returns, the exception when it raises
check_auth(authorization) ==
    IF API_KEY = <<>> THEN None
    ELSE IF authorization = None
            \/ Value(authorization) = <<>>
            \/ ~startswith(Value(authorization), Bearer)
         THEN Some(HTTPException(401, "Missing or invalid token"))
    ELSE IF strip(split1_rest(Value(authorization))) # API_KEY
         THEN Some(HTTPException(403, "Invalid API token"))
    ELSE None

-----------------------------------------------------------------------------
(* server.py: PAIRING LOGIC *)

\* update_pairing counting registrations instead of distinct clients:
\* a session seen before is paired
update_pairing_counts_calls(clients, status, session_id, client) ==
    LET c1 == IF session_id \notin DOMAIN clients
              THEN Put(clients, session_id, {})
              ELSE clients
        c2 == [c1 EXCEPT ![session_id] = @ \cup {client}]
    IN  [session_clients |-> c2,
         session_status  |->
             IF session_id \in DOMAIN clients
             THEN Put(status, session_id, "paired")
             ELSE Put(status, session_id, "waiting")]

\* update_pairing pairing only above two clients ('> 2' for '>= 2')
update_pairing_off_by_one(clients, status, session_id, client) ==
    LET c1 == IF session_id \notin DOMAIN clients
              THEN Put(clients, session_id, {})
              ELSE clients
        c2 == [c1 EXCEPT ![session_id] = @ \cup {client}]
    IN  [session_clients |-> c2,
         session_status  |->
             IF Cardinality(c2[session_id]) > 2
             THEN Put(status, session_id, "paired")
             ELSE Put(status, session_id, "waiting")]

\* update_pairing replacing the session's set by the caller alone
update_pairing_overwrites(clients, status, session_id, client) ==
    LET c2 == Put(clients, session_id, {client})
    IN  [session_clients |-> c2,
         session_status  |->
             IF Cardinality(c2[session_id]) >= 2
             THEN Put(status, session_id, "paired")
             ELSE Put(status, session_id, "waiting")]

\* update_pairing with one set object shared by every session
update_pairing_shared_set(clients, status, session_id, client) ==
    LET c1 == IF session_id \notin DOMAIN clients
              THEN Put(clients, session_id, {})
              ELSE clients
        c2 == [s \in DOMAIN c1 |-> c1[s] \cup {client}]
    IN  [session_clients |-> c2,
         session_status  |->
             IF Cardinality(c2[session_id]) >= 2
             THEN Put(status, session_id, "paired")
             ELSE Put(status, session_id, "waiting")]

\* the dictionaries session_clients and session_status after the call
update_pairing(clients, status, session_id, client) ==
    LET c1 == IF session_id \notin DOMAIN clients
              THEN Put(clients, session_id, {})
              ELSE clients
        c2 == [c1 EXCEPT ![session_id] = @ \cup {client}]
    IN  [session_clients |-> c2,
         session_status  |->
             IF Cardinality(c2[session_id]) >= 2
             THEN Put(status, session_id, "paired")
             ELSE Put(status, session_id, "waiting")]

\* history of the roles: /apdu is the reader's endpoint, /tag/event the tag's
RegisterRole(r, session_id, role) ==
    Put(r, session_id, Get(r, session_id, {}) \cup {role})

-----------------------------------------------------------------------------
(* server.py: ENDPOINTS.  request holds the fields of the request that the *)
(* handler had read when it answered.                                      *)

Unchanged_state ==
    UNCHANGED <<tasks, sim, app, API_KEY, tag_configs, last_apdu_per_session,
                session_clients, session_status, roles>>

\* a handler whose check_auth raised: the exception is the answer
Rejected(endpoint, authorization, exc) ==
    /\ request' = [endpoint |-> endpoint, authorization |-> authorization]
    /\ response' = Value(exc)
    /\ Unchanged_state

\* handle_apdu registering the caller before it checks the token
handle_apdu_registers_first(session_id, command_apdu, client, authorization) ==
    LET exc    == check_auth(authorization)
        sid    == strip(session_id)
        up     == update_pairing(session_clients, session_status,
                                 sid, client_id(client))
        cmd    == replace_spaces(upper(command_apdu))
        paired == sid \in DOMAIN up.session_status
                  /\ up.session_status[sid] = "paired"
    IN  /\ app = "server"
        /\ IF sid = <<>>
           THEN /\ request' = [endpoint |-> "/apdu",
                               authorization |-> authorization,
                               session_id |-> session_id]
                /\ response' = HTTPException(400, "session_id cannot be empty")
                /\ Unchanged_state
           ELSE /\ session_clients' = up.session_clients
                /\ session_status' = up.session_status
                /\ roles' = RegisterRole(roles, sid, "reader")
                /\ UNCHANGED <<tasks, sim, app, API_KEY, tag_configs>>
                /\ IF exc # None
                   THEN /\ request' = [endpoint |-> "/apdu",
                                       authorization |-> authorization]
                        /\ response' = Value(exc)
                        /\ UNCHANGED last_apdu_per_session
                   ELSE /\ request' = [endpoint |-> "/apdu",
                                       authorization |-> authorization,
                                       session_id |-> session_id,
                                       command_apdu |-> command_apdu,
                                       client |-> client]
                        /\ last_apdu_per_session' =
                               Put(last_apdu_per_session, sid, cmd)
                        /\ response' = [status_code |-> 200,
                                        body |-> [response_apdu |-> "9000",
                                                  status |-> "ok",
                                                  paired |-> paired]]

\* handle_apdu reading the paired flag before it registers the caller
handle_apdu_stale_paired(session_id, command_apdu, client, authorization) ==
    LET exc    == check_auth(authorization)
        sid    == strip(session_id)
        up     == update_pairing(session_clients, session_status,
                                 sid, client_id(client))
        cmd    == replace_spaces(upper(command_apdu))
        paired == sid \in DOMAIN session_status
                  /\ session_status[sid] = "paired"
    IN  /\ app = "server"
        /\ IF exc # None
           THEN Rejected("/apdu", authorization, exc)
           ELSE IF sid = <<>>
           THEN /\ request' = [endpoint |-> "/apdu",
                               authorization |-> authorization,
                               session_id |-> session_id]
                /\ response' = HTTPException(400, "session_id cannot be empty")
                /\ Unchanged_state
           ELSE /\ request' = [endpoint |-> "/apdu",
                               authorization |-> authorization,
                               session_id |-> session_id,
                               command_apdu |-> command_apdu,
                               client |-> client]
                /\ session_clients' = up.session_clients
                /\ session_status' = up.session_status
                /\ last_apdu_per_session' = Put(last_apdu_per_session, sid, cmd)
                /\ roles' = RegisterRole(roles, sid, "reader")
                /\ response' = [status_code |-> 200,
                                body |-> [response_apdu |-> "9000",
                                          status |-> "ok",
                                          paired |-> paired]]
                /\ UNCHANGED <<tasks, sim, app, API_KEY, tag_configs>>

\* POST /apdu
handle_apdu(session_id, command_apdu, client, authorization) ==
    LET exc    == check_auth(authorization)
        sid    == strip(session_id)
        up     == update_pairing(session_clients, session_status,
                                 sid, client_id(client))
        cmd    == replace_spaces(upper(command_apdu))
        paired == sid \in DOMAIN up.session_status
                  /\ up.session_status[sid] = "paired"
    IN  /\ app = "server"
        /\ IF exc # None
           THEN Rejected("/apdu", authorization, exc)
           ELSE IF sid = <<>>
           THEN /\ request' = [endpoint |-> "/apdu",
                               authorization |-> authorization,
                               session_id |-> session_id]
                /\ response' = HTTPException(400, "session_id cannot be empty")
                /\ Unchanged_state
           ELSE /\ request' = [endpoint |-> "/apdu",
                               authorization |-> authorization,
                               session_id |-> session_id,
                               command_apdu |-> command_apdu,
                               client |-> client]
                /\ session_clients' = up.session_clients
                /\ session_status' = up.session_status
                /\ last_apdu_per_session' = Put(last_apdu_per_session, sid, cmd)
                /\ roles' = RegisterRole(roles, sid, "reader")
                /\ response' = [status_code |-> 200,
                                body |-> [response_apdu |-> "9000",
                                          status |-> "ok",
                                          paired |-> paired]]
                /\ UNCHANGED <<tasks, sim, app, API_KEY, tag_configs>>

\* POST /tag/event
tag_event(session_id, client, authorization) ==
    LET exc    == check_auth(authorization)
        up     == update_pairing(session_clients, session_status,
                                 session_id, client_id(client))
        paired == session_id \in DOMAIN up.session_status
                  /\ up.session_status[session_id] = "paired"
    IN  /\ app = "server"
        /\ IF exc # None
           THEN Rejected("/tag/event", authorization, exc)
           ELSE /\ request' = [endpoint |-> "/tag/event",
                               authorization |-> authorization,
                               session_id |-> session_id,
                               client |-> client]
                /\ session_clients' = up.session_clients
                /\ session_status' = up.session_status
                /\ roles' = RegisterRole(roles, session_id, "tag")
                /\ response' = [status_code |-> 200,
                                body |-> [status |-> "ok", paired |-> paired]]
                /\ UNCHANGED <<tasks, sim, app, API_KEY, tag_configs, last_apdu_per_session>>

\* get_session_status creating the entry it looks up (setdefault)
get_session_status_creates(session_id, authorization) ==
    LET exc == check_auth(authorization)
    IN  /\ app = "server"
        /\ IF exc # None
           THEN Rejected("/session/status", authorization, exc)
           ELSE /\ request' = [endpoint |-> "/session/status",
                               authorization |-> authorization,
                               session_id |-> session_id]
                /\ session_clients' =
                       Put(session_clients, session_id,
                           Get(session_clients, session_id, {}))
                /\ session_status' =
                       Put(session_status, session_id,
                           Get(session_status, session_id, "waiting"))
                /\ response' =
                       [status_code |-> 200,
                        body |-> [session_id |-> session_id,
                                  status |-> Get(session_status, session_id, "waiting"),
                                  clients |-> Cardinality(Get(session_clients,
                                                              session_id, {}))]]
                /\ UNCHANGED <<tasks, sim, app, API_KEY, tag_configs,
                               last_apdu_per_session, roles>>

\* GET /session/status
get_session_status(session_id, authorization) ==
    LET exc == check_auth(authorization)
    IN  /\ app = "server"
        /\ IF exc # None
           THEN Rejected("/session/status", authorization, exc)
           ELSE /\ request' = [endpoint |-> "/session/status",
                               authorization |-> authorization,
                               session_id |-> session_id]
                /\ response' =
                       [status_code |-> 200,
                        body |-> [session_id |-> session_id,
                                  status |-> Get(session_status, session_id, "waiting"),
                                  clients |-> Cardinality(Get(session_clients,
                                                              session_id, {}))]]
                /\ Unchanged_state

-----------------------------------------------------------------------------
(* main.py: ENDPOINTS *)

Default == <<"d","e","f","a","u","l","t">>

\* (session_id or "default").strip() or "default"
default_sid(session_id) ==
    LET s == IF session_id = None \/ Value(session_id) = <<>>
             THEN Default ELSE Value(session_id)
    IN  IF strip(s) = <<>> THEN Default ELSE strip(s)

\* the fallback demo configuration of /tag/config
demo_cfg ==
    [mode |-> "emulate", tag_id |-> Some("04AABBCCDD22"),
     ndef_records |-> Some(<<NdefUri("https://example.com/nfc-demo")>>)]

\* POST /apdu
main_handle_apdu(session_id, command_apdu, authorization) ==
    LET exc == check_auth(authorization)
        sid == default_sid(session_id)
        cmd == replace_spaces(upper(command_apdu))
    IN  /\ app = "main"
        /\ IF exc # None
           THEN Rejected("/apdu", authorization, exc)
           ELSE /\ request' = [endpoint |-> "/apdu",
                               authorization |-> authorization,
                               session_id |-> session_id,
                               command_apdu |-> command_apdu]
                /\ last_apdu_per_session' = Put(last_apdu_per_session, sid, cmd)
                /\ response' = [status_code |-> 200,
                                body |-> [response_apdu |-> "9000",
                                          status |-> "ok"]]
                /\ UNCHANGED <<tasks, sim, app, API_KEY, tag_configs, session_clients,
                               session_status, roles>>

\* POST /tag/event
main_tag_event(session_id, authorization) ==
    LET exc == check_auth(authorization)
    IN  /\ app = "main"
        /\ IF exc # None
           THEN Rejected("/tag/event", authorization, exc)
           ELSE /\ request' = [endpoint |-> "/tag/event",
                               authorization |-> authorization,
                               session_id |-> session_id]
                /\ response' = [status_code |-> 200, body |-> [status |-> "ok"]]
                /\ Unchanged_state

\* tag_config looking the session id up as sent, untrimmed
tag_config_raw_key(session_id, authorization) ==
    LET exc == check_auth(authorization)
        sid == IF session_id = None THEN Default ELSE Value(session_id)
    IN  /\ app = "main"
        /\ IF exc # None
           THEN Rejected("/tag/config", authorization, exc)
           ELSE /\ request' = [endpoint |-> "/tag/config",
                               authorization |-> authorization,
                               session_id |-> session_id]
                /\ response' = [status_code |-> 200,
                                body |-> IF sid \in DOMAIN tag_configs
                                         THEN tag_configs[sid]
                                         ELSE demo_cfg]
                /\ Unchanged_state

\* GET /tag/config
tag_config(session_id, authorization) ==
    LET exc == check_auth(authorization)
        sid == default_sid(session_id)
    IN  /\ app = "main"
        /\ IF exc # None
           THEN Rejected("/tag/config", authorization, exc)
           ELSE /\ request' = [endpoint |-> "/tag/config",
                               authorization |-> authorization,
                               session_id |-> session_id]
                /\ response' = [status_code |-> 200,
                                body |-> IF sid \in DOMAIN tag_configs
                                         THEN tag_configs[sid]
                                         ELSE demo_cfg]
                /\ Unchanged_state

\* GET /sessions
list_sessions(authorization) ==
    LET exc == check_auth(authorization)
    IN  /\ app = "main"
        /\ IF exc # None
           THEN Rejected("/sessions", authorization, exc)
           ELSE /\ request' = [endpoint |-> "/sessions",
                               authorization |-> authorization]
                /\ response' = [status_code |-> 200,
                                body |-> [sessions |-> last_apdu_per_session]]
                /\ Unchanged_state

\* POST /admin/set_tag
set_tag_config(session_id, data, authorization) ==
    LET exc == check_auth(authorization)
        sid == default_sid(session_id)
        cfg == [mode |-> data.mode, tag_id |-> data.tag_id,
                ndef_records |-> data.ndef_records]
    IN  /\ app = "main"
        /\ IF exc # None
           THEN Rejected("/admin/set_tag", authorization, exc)
           ELSE /\ request' = [endpoint |-> "/admin/set_tag",
                               authorization |-> authorization,
                               session_id |-> session_id,
                               data |-> data]
                /\ tag_configs' = Put(tag_configs, sid, cfg)
                /\ response' = [status_code |-> 200,
                                body |-> [status |-> "ok", session_id |-> sid]]
                /\ UNCHANGED <<tasks, sim, app, API_KEY, last_apdu_per_session,
                               session_clients, session_status, roles>>

-----------------------------------------------------------------------------
(* Specification *)

Init ==
    /\ app \in {"server", "main"}
    /\ API_KEY \in ApiKeys
    /\ tag_configs = EmptyDict
    /\ last_apdu_per_session = EmptyDict
    /\ session_clients = EmptyDict
    /\ session_status = EmptyDict
    /\ roles = EmptyDict
    /\ request = [endpoint |-> "none"]
    /\ response = [status_code |-> 0]
    /\ tasks = NoTasks
    /\ sim = SimIdle

Next ==
    \/ \E s \in SessionIds, c \in Commands, cl \in Clients, h \in Headers :
           handle_apdu(s, c, cl, h)
    \/ \E s \in SessionIds, cl \in Clients, h \in Headers :
           tag_event(s, cl, h)
    \/ \E s \in SessionIds, h \in Headers :
           get_session_status(s, h)
    \/ \E s \in OptSessionIds, c \in Commands, h \in Headers :
           main_handle_apdu(s, c, h)
    \/ \E s \in OptSessionIds, h \in Headers :
           main_tag_event(s, h)
    \/ \E s \in OptSessionIds, h \in Headers :
           tag_config(s, h)
    \/ \E h \in Headers :
           list_sessions(h)
    \/ \E s \in OptSessionIds, d \in TagConfigs, h \in Headers :
           set_tag_config(s, d, h)

Spec == Init /\ [][Next]_vars

-----------------------------------------------------------------------------
(* check_auth on its own: every key against every shape of header *)

AuthKeys == { <<>>, <<"k">>, <<"x">>, <<"k", " ", "x">> }

AuthPrefixes ==
    { Bearer, <<"B","e","a","r","e","r">>, <<"b","e","a","r","e","r"," ">>,
      <<"B","a","s","i","c"," ">>, <<>> }

AuthTails ==
    { <<>>, <<"k">>, <<" ", "k", " ">>, <<"\t", "k">>, <<"x">>,
      <<"k", " ", "x">>, <<"k", "x">> }

AuthHeaders == {None} \cup {Some(p \o t) : p \in AuthPrefixes, t \in AuthTails}

InitAuth ==
    /\ app \in {"server", "main"}
    /\ API_KEY \in AuthKeys
    /\ tag_configs = EmptyDict
    /\ last_apdu_per_session = EmptyDict
    /\ session_clients = EmptyDict
    /\ session_status = EmptyDict
    /\ roles = EmptyDict
    /\ request = [endpoint |-> "none"]
    /\ response = [status_code |-> 0]
    /\ tasks = NoTasks
    /\ sim = SimIdle

NextAuth ==
    \/ \E h \in AuthHeaders : get_session_status(<<"a">>, h)
    \/ \E h \in AuthHeaders : list_sessions(h)

SpecAuth == InitAuth /\ [][NextAuth]_vars

-----------------------------------------------------------------------------
(* server.py: /apdu and /tag/event requests handled concurrently.  Each     *)
(* request is a coroutine on the one event loop (uvicorn, workers=1); the   *)
(* loop switches coroutines only where the running one awaits.              *)

\* requests in flight at the same time
MaxTasks == 2

TaskIds == 1..MaxTasks

ConcSessionIds == { <<"a">>, <<" ", "a">> }

TaskRequests ==
    [endpoint : {"/apdu"}, authorization : {None}, session_id : ConcSessionIds,
     command_apdu : { <<"0", " ", "a">> }, client : Clients]
    \cup
    [endpoint : {"/tag/event"}, authorization : {None},
     session_id : ConcSessionIds, client : Clients]

\* the session key a handler registers its caller under
TaskKey(req) ==
    IF req.endpoint = "/apdu" THEN strip(req.session_id) ELSE req.session_id

\* a handler that awaits after update_pairing, before it reads the status
yields_after_update_pairing(pc) == pc = "registered"

\* whether a handler at pc awaits there: the bodies of handle_apdu and
\* tag_event hold no await
yields(pc) == FALSE

\* the event loop may start t: no other handler is stopped where it cannot yield
MayRun(t) ==
    \A u \in TaskIds \ {t} :
        tasks[u].pc = "registered" => yields(tasks[u].pc)

\* handle_apdu up to update_pairing (213-220), tag_event up to it (240-243)
Register(t) ==
    LET req == tasks[t].req
        exc == check_auth(req.authorization)
        sid == TaskKey(req)
        up  == update_pairing(session_clients, session_status,
                              sid, client_id(req.client))
    IN  /\ app = "server"
        /\ tasks[t].pc = "pending"
        /\ MayRun(t)
        /\ IF exc # None
           THEN /\ tasks' = [tasks EXCEPT ![t].pc = "done",
                                          ![t].resp = Some(Value(exc))]
                /\ UNCHANGED <<session_clients, session_status, roles>>
           ELSE IF req.endpoint = "/apdu" /\ sid = <<>>
           THEN /\ tasks' = [tasks EXCEPT
                        ![t].pc = "done",
                        ![t].resp = Some(HTTPException(400,
                                             "session_id cannot be empty"))]
                /\ UNCHANGED <<session_clients, session_status, roles>>
           ELSE /\ session_clients' = up.session_clients
                /\ session_status' = up.session_status
                /\ roles' = RegisterRole(roles, sid,
                                IF req.endpoint = "/apdu" THEN "reader" ELSE "tag")
                /\ tasks' = [tasks EXCEPT ![t].pc = "registered"]
        /\ UNCHANGED <<app, API_KEY, tag_configs, last_apdu_per_session,
                       request, response, sim>>

\* handle_apdu from the command on (222-231), tag_event from paired on (245-251)
Respond(t) ==
    LET req    == tasks[t].req
        sid    == TaskKey(req)
        paired == sid \in DOMAIN session_status
                  /\ session_status[sid] = "paired"
    IN  /\ app = "server"
        /\ tasks[t].pc = "registered"
        /\ last_apdu_per_session' =
               IF req.endpoint = "/apdu"
               THEN Put(last_apdu_per_session, sid,
                        replace_spaces(upper(req.command_apdu)))
               ELSE last_apdu_per_session
        /\ tasks' = [tasks EXCEPT
                ![t].pc = "done",
                ![t].resp = Some([status_code |-> 200, paired |-> paired])]
        /\ UNCHANGED <<app, API_KEY, tag_configs, session_clients,
                       session_status, roles, request, response, sim>>

InitConc ==
    /\ app = "server"
    /\ API_KEY = <<>>
    /\ tag_configs = EmptyDict
    /\ last_apdu_per_session = EmptyDict
    /\ session_clients = EmptyDict
    /\ session_status = EmptyDict
    /\ roles = EmptyDict
    /\ request = [endpoint |-> "none"]
    /\ response = [status_code |-> 0]
    /\ tasks \in [TaskIds -> [req : TaskRequests, pc : {"pending"}, resp : {None}]]
    /\ sim = SimIdle

NextConc ==
    \/ \E t \in TaskIds : Register(t)
    \/ \E t \in TaskIds : Respond(t)

SpecConc == InitConc /\ [][NextConc]_vars

-----------------------------------------------------------------------------
(* tag_simulator.py: the receive loop on the WebSocket channel.  sim.wire   *)
(* is the traffic of the channel in order, sim.reports what the simulator   *)
(* printed for each message, sim.loop where the simulator is.               *)

\* messages the server sends before it closes the channel
MaxMessages == 3

\* a text frame: whether json.loads takes it and as what, and the fields
\* data.get reads
SimMessages ==
    { [json |-> "object", type |-> Some("apdu_request"), command_apdu |-> Some("00A4")],
      [json |-> "object", type |-> Some("apdu_request"), command_apdu |-> None],
      [json |-> "object", type |-> Some("nfc_full_data"), command_apdu |-> None],
      [json |-> "object", type |-> Some("ping"), command_apdu |-> None],
      [json |-> "object", type |-> None, command_apdu |-> None],
      [json |-> "array", type |-> None, command_apdu |-> None],
      [json |-> "invalid", type |-> None, command_apdu |-> None] }

apdu_response == [type |-> "apdu_response", response_apdu |-> "9000"]

\* the loop body with the JSON error escaping the loop
on_message_stops_on_invalid(message) ==
    IF message.json = "invalid"
    THEN [send |-> <<>>, report |-> "invalid message", continue |-> FALSE]
    ELSE IF message.json # "object"
    THEN [send |-> <<>>, report |-> "processing error", continue |-> TRUE]
    ELSE IF message.type = Some("apdu_request")
    THEN [send |-> <<apdu_response>>, report |-> "apdu command",
          continue |-> TRUE]
    ELSE IF message.type = Some("nfc_full_data")
    THEN [send |-> <<>>, report |-> "nfc data", continue |-> TRUE]
    ELSE [send |-> <<>>, report |-> "unknown message", continue |-> TRUE]

\* one pass of the loop body (22-50): what it sends, what it prints and
\* whether the loop goes on
on_message(message) ==
    IF message.json = "invalid"
    THEN [send |-> <<>>, report |-> "invalid message", continue |-> TRUE]
    ELSE IF message.json # "object"
    THEN [send |-> <<>>, report |-> "processing error", continue |-> TRUE]
    ELSE IF message.type = Some("apdu_request")
    THEN [send |-> <<apdu_response>>, report |-> "apdu command",
          continue |-> TRUE]
    ELSE IF message.type = Some("nfc_full_data")
    THEN [send |-> <<>>, report |-> "nfc data", continue |-> TRUE]
    ELSE [send |-> <<>>, report |-> "unknown message", continue |-> TRUE]

Sent(msgs) == [i \in 1..Len(msgs) |-> [dir |-> "send", msg |-> msgs[i]]]

Unchanged_servers ==
    UNCHANGED <<app, API_KEY, tag_configs, last_apdu_per_session,
                session_clients, session_status, roles, request, response,
                tasks>>

\* websockets.connect succeeds
sim_connect ==
    /\ sim.loop = "idle"
    /\ sim' = [sim EXCEPT !.loop = "receiving"]
    /\ Unchanged_servers

\* async for message in ws: one message arrives and is handled
sim_receive(message) ==
    LET did == on_message(message)
    IN  /\ sim.loop = "receiving"
        /\ Len(sim.reports) < MaxMessages
        /\ sim' = [wire |-> (sim.wire \o <<[dir |-> "recv", msg |-> message]>>)
                                \o Sent(did.send),
                   reports |-> Append(sim.reports, did.report),
                   loop |-> IF did.continue THEN "receiving" ELSE "ended"]
        /\ Unchanged_servers

\* the server closes the channel: the async for ends
sim_closed ==
    /\ sim.loop = "receiving"
    /\ sim' = [sim EXCEPT !.loop = "ended"]
    /\ Unchanged_servers

InitSim ==
    /\ app = "server"
    /\ API_KEY = <<>>
    /\ tag_configs = EmptyDict
    /\ last_apdu_per_session = EmptyDict
    /\ session_clients = EmptyDict
    /\ session_status = EmptyDict
    /\ roles = EmptyDict
    /\ request = [endpoint |-> "none"]
    /\ response = [status_code |-> 0]
    /\ tasks = NoTasks
    /\ sim = SimIdle

NextSim ==
    \/ sim_connect
    \/ \E m \in SimMessages : sim_receive(m)
    \/ sim_closed

SpecSim == InitSim /\ [][NextSim]_vars

-----------------------------------------------------------------------------
(* server.py with two sessions that /apdu can file commands under *)

IsoSessionIds == { <<"a">>, <<"b">>, <<" ", "b">> }

InitIso ==
    /\ app = "server"
    /\ API_KEY = <<>>
    /\ tag_configs = EmptyDict
    /\ last_apdu_per_session = EmptyDict
    /\ session_clients = EmptyDict
    /\ session_status = EmptyDict
    /\ roles = EmptyDict
    /\ request = [endpoint |-> "none"]
    /\ response = [status_code |-> 0]
    /\ tasks = NoTasks
    /\ sim = SimIdle

NextIso ==
    \/ \E s \in IsoSessionIds, c \in Commands, cl \in Clients :
           handle_apdu(s, c, cl, None)
    \/ \E s \in IsoSessionIds, cl \in Clients :
           tag_event(s, cl, None)

SpecIso == InitIso /\ [][NextIso]_vars

\* server.py with auth disabled: the three endpoints that read or write the
\* pairing dictionaries
NextPair ==
    \/ \E s \in SessionIds, c \in Commands, cl \in Clients :
           handle_apdu(s, c, cl, None)
    \/ \E s \in SessionIds, cl \in Clients :
           tag_event(s, cl, None)
    \/ \E s \in SessionIds :
           get_session_status(s, None)

SpecPair == InitIso /\ [][NextPair]_vars

-----------------------------------------------------------------------------
(* Properties *)

\* the request handled last was answered 200
Answered(endpoint) ==
    request.endpoint = endpoint /\ response.status_code = 200

\* the session key a successful /apdu request is filed under
ApduKey(req) ==
    IF app = "server" THEN strip(req.session_id) ELSE default_sid(req.session_id)

\* the header is 'Bearer ' followed by the key, up to surrounding whitespace
TokenMatches(h) ==
    /\ h # None
    /\ Len(Value(h)) >= 7
    /\ SubSeq(Value(h), 1, 7) = Bearer
    /\ strip(SubSeq(Value(h), 8, Len(Value(h)))) = API_KEY

BothRoles == {"reader", "tag"}

(* C1: the paired flag of a session is true exactly when both a reader and  *)
(* a tag are registered for it.                                             *)
C1_PairedIffBothRoles ==
    \A s \in DOMAIN session_status :
        (session_status[s] = "paired") <=> (Get(roles, s, {}) = BothRoles)

(* C2: registrations of one single role never make the session paired and   *)
(* never grow its participants beyond one per role.                         *)
C2_OneParticipantPerRole ==
    \A s \in DOMAIN session_clients :
        /\ Cardinality(session_clients[s]) <= Cardinality(Get(roles, s, {}))
        /\ Cardinality(Get(roles, s, {})) = 1 => session_status[s] # "paired"

(* C3: a command for a session with no tag peer is answered "6A82" with     *)
(* paired = false.                                                          *)
C3_NoTagPeerAnswers6A82 ==
    (Answered("/apdu") /\ "tag" \notin Get(roles, ApduKey(request), {}))
        => /\ response.body.response_apdu = "6A82"
           /\ app = "server" => response.body.paired = FALSE

(* C4: with an API key configured, a request whose Authorization header is  *)
(* missing, not a Bearer header or carries another token is rejected with   *)
(* 401 or 403 and leaves the four dictionaries as they were.                *)
C4_AuthRejectsBeforeMutation ==
    [][ (API_KEY # <<>> /\ ~TokenMatches(request'.authorization))
            => /\ response'.status_code \in {401, 403}
               /\ UNCHANGED <<session_clients, session_status,
                              last_apdu_per_session, tag_configs>> ]_vars

C4_Witness ==
    /\ API_KEY # <<>>
    /\ request.endpoint = "/apdu"
    /\ response.status_code = 403
    /\ DOMAIN session_clients # {}
    /\ DOMAIN last_apdu_per_session # {}

(* C5: a request with an empty (or blank) session id or an empty command is *)
(* rejected as a client error, so no key of session_clients, session_status *)
(* or last_apdu_per_session is empty after trimming.                        *)
C5_EmptyInputRejected ==
    /\ (app = "server" /\ request.endpoint \in {"/apdu", "/tag/event"}
          /\ response.status_code = 200)
         => /\ strip(request.session_id) # <<>>
            /\ request.endpoint = "/apdu" => request.command_apdu # <<>>
    /\ \A k \in (DOMAIN session_clients) \cup (DOMAIN session_status)
                  \cup (DOMAIN last_apdu_per_session) : strip(k) # <<>>

C7_StatusQueryReadsOnly ==
    [][ request'.endpoint = "/session/status"
            => /\ UNCHANGED <<session_clients, session_status,
                              last_apdu_per_session>>
               /\ (response'.status_code = 200
                     /\ request'.session_id \notin DOMAIN session_clients)
                    => /\ response'.body.status = "waiting"
                       /\ response'.body.clients = 0 ]_vars

C7_Witness ==
    /\ Answered("/session/status")
    /\ request.session_id \notin DOMAIN session_clients
    /\ DOMAIN session_clients # {}
    /\ response.body.status = "waiting"
    /\ response.body.clients = 0

(* C8: update_pairing is idempotent: registering the same session id and    *)
(* client identity twice leaves session_clients and session_status as one   *)
(* registration does, from every reachable state.                           *)
C8_RegistrationIdempotent ==
    \A s \in SessionIds, c \in Clients :
        LET once  == update_pairing(session_clients, session_status,
                                    s, client_id(c))
            twice == update_pairing(once.session_clients, once.session_status,
                                    s, client_id(c))
        IN  twice = once

C8_Witness ==
    /\ app = "server"
    /\ Answered("/tag/event")
    /\ session_status[request.session_id] = "waiting"
    /\ \E s \in DOMAIN session_status : session_status[s] = "paired"
    /\ update_pairing(session_clients, session_status,
                      request.session_id, client_id(request.client))
           = [session_clients |-> session_clients,
              session_status |-> session_status]

(* C9: a command whose response never arrives from the tag resolves to      *)
(* "6F00" and to no other payload.                                          *)
C9_NoResponseAnswers6F00 ==
    (Answered("/apdu") /\ "tag" \in Get(roles, ApduKey(request), {}))
        => response.body.response_apdu = "6F00"

(* C10: check_auth accepts exactly when the key is empty or the header is   *)
(* 'Bearer ' followed by the key up to surrounding whitespace; otherwise a  *)
(* missing or non-Bearer header gives 401 and a wrong token gives 403.      *)
C10_CheckAuthDecision ==
    request.endpoint # "none"
        => LET h == request.authorization
               isBearer == h # None /\ Len(Value(h)) >= 7
                                    /\ SubSeq(Value(h), 1, 7) = Bearer
           IN  IF API_KEY = <<>> \/ TokenMatches(h)
               THEN response.status_code = 200
               ELSE IF isBearer
               THEN response.status_code = 403
               ELSE response.status_code = 401

C10_Witness ==
    /\ API_KEY = <<"k">>
    /\ request.endpoint = "/sessions"
    /\ request.authorization = Some(Bearer \o <<" ", "k", " ">>)
    /\ response.status_code = 200

\* the orders in which the requests in flight can be handled one at a time
TaskOrders == { o \in [TaskIds -> TaskIds] : \A i, j \in TaskIds : o[i] = o[j] => i = j }

\* the dictionaries and paired flags after handling o[i], o[i+1], ... in turn
RECURSIVE HandledInTurn(_, _, _)
HandledInTurn(o, i, st) ==
    IF i > MaxTasks THEN st
    ELSE LET req == tasks[o[i]].req
             up  == update_pairing(st.session_clients, st.session_status,
                                   TaskKey(req), client_id(req.client))
         IN  HandledInTurn(o, i + 1,
                 [session_clients |-> up.session_clients,
                  session_status  |-> up.session_status,
                  paired |-> [st.paired EXCEPT ![o[i]] =
                                 up.session_status[TaskKey(req)] = "paired"]])

AllDone == \A t \in TaskIds : tasks[t].pc = "done"

(* C11: however concurrent /apdu and /tag/event requests interleave, once   *)
(* all are answered session_clients and session_status and every paired     *)
(* flag are those of handling the same requests one at a time in some       *)
(* order, and every caller is registered.                                   *)
C11_RegistrationsSerialize ==
    AllDone =>
        /\ \E o \in TaskOrders :
               LET seq == HandledInTurn(o, 1,
                              [session_clients |-> EmptyDict,
                               session_status |-> EmptyDict,
                               paired |-> [t \in TaskIds |-> FALSE]])
               IN  /\ seq.session_clients = session_clients
                   /\ seq.session_status = session_status
                   /\ \A t \in TaskIds :
                          Value(tasks[t].resp).paired = seq.paired[t]
        /\ \A t \in TaskIds :
               /\ TaskKey(tasks[t].req) \in DOMAIN session_clients
               /\ client_id(tasks[t].req.client)
                      \in session_clients[TaskKey(tasks[t].req)]

C11_Witness ==
    /\ AllDone
    /\ tasks[1].req.endpoint = "/apdu"
    /\ tasks[2].req.endpoint = "/tag/event"
    /\ TaskKey(tasks[1].req) = TaskKey(tasks[2].req)
    /\ Value(tasks[1].resp).paired = TRUE
    /\ Value(tasks[2].resp).paired = FALSE

\* a missing or blank session id is 'default', any other is itself trimmed
ConfigKey(session_id) ==
    IF session_id = None THEN Default
    ELSE IF \A i \in 1..Len(Value(session_id)) : Value(session_id)[i] \in Whitespace
    THEN Default
    ELSE strip(Value(session_id))

(* C12: in main.py /admin/set_tag files exactly the mode, tag_id and        *)
(* ndef_records it was sent under its session, nothing else changes         *)
(* tag_configs, and /tag/config answers what is filed under its session, or *)
(* the demo configuration (mode 'emulate', tag_id '04AABBCCDD22') when      *)
(* nothing is; both take a missing or blank session id as 'default'.  So    *)
(* /tag/config returns the most recent /admin/set_tag of the session.       *)
C12_TagConfigReadsLastSet ==
    [][ /\ (request'.endpoint = "/admin/set_tag" /\ response'.status_code = 200)
            => /\ tag_configs' = Put(tag_configs, ConfigKey(request'.session_id),
                                     request'.data)
               /\ response'.body.session_id = ConfigKey(request'.session_id)
        /\ request'.endpoint # "/admin/set_tag" => UNCHANGED tag_configs
        /\ response'.status_code # 200 => UNCHANGED tag_configs
        /\ (request'.endpoint = "/tag/config" /\ response'.status_code = 200)
            => IF ConfigKey(request'.session_id) \in DOMAIN tag_configs
               THEN response'.body = tag_configs[ConfigKey(request'.session_id)]
               ELSE /\ response'.body.mode = "emulate"
                    /\ response'.body.tag_id = Some("04AABBCCDD22")
                    /\ response'.body = demo_cfg ]_vars

C12_Witness ==
    /\ Answered("/tag/config")
    /\ request.session_id = Some(<<" ", "a">>)
    /\ <<"a">> \in DOMAIN tag_configs
    /\ Default \in DOMAIN tag_configs
    /\ tag_configs[Default] # tag_configs[<<"a">>]
    /\ response.body = tag_configs[<<"a">>]
    /\ response.body.mode = "none"

IsRequest(e) ==
    e.dir = "recv" /\ e.msg.json = "object" /\ e.msg.type = Some("apdu_request")

\* on the channel every apdu_request is followed at once by an apdu_response
\* '9000', and nothing else is ever sent
AnswersOnlyRequests(wire) ==
    \A i \in 1..Len(wire) :
        /\ IsRequest(wire[i])
               => /\ i < Len(wire)
                  /\ wire[i + 1] = [dir |-> "send",
                                    msg |-> [type |-> "apdu_response",
                                             response_apdu |-> "9000"]]
        /\ wire[i].dir = "send" => (i > 1 /\ IsRequest(wire[i - 1]))

(* C13: on an open channel the simulator sends exactly one apdu_response    *)
(* '9000' for each apdu_request, in the order received, and nothing for any *)
(* other message; whatever the message, it is reported and the receive loop *)
(* keeps running.                                                           *)
C13_SimulatorAnswersRequests ==
    [][ /\ AnswersOnlyRequests(sim'.wire)
        /\ Len(sim'.wire) > Len(sim.wire)
               => /\ sim'.loop = "receiving"
                  /\ Len(sim'.reports) = Len(sim.reports) + 1 ]_vars

C13_Witness ==
    /\ sim.loop = "receiving"
    /\ Len(sim.wire) = 4
    /\ sim.wire[1].msg.json = "invalid"
    /\ sim.wire[2].msg.json = "array"
    /\ IsRequest(sim.wire[3])
    /\ sim.wire[4].dir = "send"

(* C14: in server.py session_clients and session_status have the same      *)
(* keys, every registered session has a client, and a session is 'paired'   *)
(* exactly when its set holds two distinct clients, 'waiting' otherwise.    *)
C14_StatusFollowsClientCount ==
    /\ DOMAIN session_clients = DOMAIN session_status
    /\ \A s \in DOMAIN session_clients :
           /\ session_clients[s] # {}
           /\ session_status[s] \in {"paired", "waiting"}
           /\ session_status[s] = "paired"
                  <=> \E c, d \in session_clients[s] : c # d

C14_Witness ==
    /\ Answered("/session/status")
    /\ \E s, t \in DOMAIN session_status :
           /\ session_status[s] = "paired"
           /\ session_status[t] = "waiting"
           /\ Cardinality(session_clients[s]) = 2
           /\ Cardinality(session_clients[t]) = 1

(* C15: pairing in server.py is monotonic: no step removes a session or a   *)
(* client of a session, and a 'paired' session stays 'paired'.              *)
C15_PairingMonotonic ==
    [][ \A s \in DOMAIN session_clients :
            /\ s \in DOMAIN session_clients'
            /\ session_clients[s] \subseteq session_clients'[s]
            /\ s \in DOMAIN session_status'
            /\ session_status[s] = "paired" => session_status'[s] = "paired"
      ]_vars

C15_Witness ==
    /\ app = "server"
    /\ Answered("/tag/event")
    /\ session_status[request.session_id] = "paired"
    /\ roles[request.session_id] = {"tag"}
    /\ \E s \in DOMAIN session_status : session_status[s] = "waiting"

\* entry k is the same in dictionary d and in dictionary e
SameEntry(d, e, k) ==
    /\ k \in DOMAIN d <=> k \in DOMAIN e
    /\ k \in DOMAIN d => e[k] = d[k]

\* the session an accepted /apdu or /tag/event request is for
RequestKey(req) ==
    IF req.endpoint = "/apdu" THEN strip(req.session_id) ELSE req.session_id

(* C16: an accepted /apdu or /tag/event request for session A leaves the    *)
(* entries of every other session in session_clients, session_status and    *)
(* last_apdu_per_session as they were, and /tag/event changes no entry of   *)
(* last_apdu_per_session.                                                   *)
C16_SessionsIsolated ==
    [][ (request'.endpoint \in {"/apdu", "/tag/event"}
           /\ response'.status_code = 200)
          => /\ \A B \in ((DOMAIN session_clients') \cup (DOMAIN session_status')
                            \cup (DOMAIN last_apdu_per_session')
                            \cup IsoSessionIds) \ {RequestKey(request')} :
                    /\ SameEntry(session_clients, session_clients', B)
                    /\ SameEntry(session_status, session_status', B)
                    /\ SameEntry(last_apdu_per_session, last_apdu_per_session', B)
             /\ request'.endpoint = "/tag/event"
                    => UNCHANGED last_apdu_per_session ]_vars

C16_Witness ==
    /\ Answered("/apdu")
    /\ RequestKey(request) = <<"b">>
    /\ request.session_id = <<" ", "b">>
    /\ DOMAIN last_apdu_per_session = { <<"a">>, <<"b">> }
    /\ last_apdu_per_session[<<"a">>] # last_apdu_per_session[<<"b">>]
    /\ session_status[<<"a">>] = "paired"
    /\ session_status[<<"b">>] = "waiting"
    /\ <<" ", "b">> \in DOMAIN session_clients

=============================================================================
